---- MODULE Spec2Model ----
(***************************************************************************)
(* A-DBSCAN (esda/adbscan.py): ADBSCAN.fit, _one_draw, remap_lbls,         *)
(* _remap_n_expand, _remap_lbls_single, ensemble, get_cluster_boundary.    *)
(*                                                                         *)
(* Labels are modelled as integers (the noise label is -1); a table        *)
(* (DataFrame) is a sequence of columns, each column a sequence of N       *)
(* labels in the index order of the Point Set.  Coordinates are integer    *)
(* pairs; centroids are kept as exact rationals (sum, count) and compared  *)
(* by cross-multiplication.                                                *)
(***************************************************************************)
EXTENDS Integers, Sequences, FiniteSets, TLC

VARIABLES
    self,              \* the estimator's configuration (ADBSCAN.__init__)
    X,                 \* the Point Set: a sequence of <<x, y>>
    pc,                \* position in fit / remap_lbls
    i,                 \* fit: the number of draws made
    solus,             \* the Label Matrix, one column per draw
    rids,              \* _one_draw: the row ids the latest draw sampled, shuffled
    ref,               \* remap_lbls: the reference column (0: not chosen)
    s_ids,             \* remap_lbls, pool path: the columns handed to the pool
    remapped,          \* remap_lbls, pool path: task index -> result column
    solus_relabelled,  \* what remap_lbls returned
    votes,             \* what ensemble returned: per point [lbls, cnt]
    labels_,           \* Final Labels
    warned,            \* the UserWarnings emitted so far
    err,               \* the exception that ended the call ("" if none)
    b                  \* get_cluster_boundary: its own frame

vars == <<self, X, pc, i, solus, rids, ref, s_ids, remapped,
          solus_relabelled, votes, labels_, warned, err, b>>

----------------------------------------------------------------------------
(* Bounds of the model *)

\* the largest repetition count (reps) a configuration may ask for
MaxReps == 3
\* the largest cluster id in a label vector given to get_cluster_boundary
MaxLabel == 1
\* the largest number of columns of a hand-built Label Matrix
MaxCols == 3

----------------------------------------------------------------------------
(* Values *)

\* lbl_type(-1): the noise label
noise == -1
\* a missing value (what Series.map leaves for a key it does not hold)
NaN == -2
\* a cell of the Label Matrix no draw has written yet ('')
Blank == -3
\* pct_thr and pct_exact are k / PctDen
PctDen == 10

\* The coordinates of the points (columns X and Y of the frame)
Coords == << <<0, 0>>, <<0, 1>>, <<4, 3>>, <<5, 3>> >>

Range(f) == {f[k] : k \in DOMAIN f}

RECURSIVE SortedSeq(_)
\* the members of a finite set of integers, ascending (groupby sorts its keys)
SortedSeq(S) ==
    IF S = {} THEN << >>
    ELSE LET m == CHOOSE v \in S : \A w \in S : v <= w
         IN  <<m>> \o SortedSeq(S \ {m})

RECURSIVE SumOver(_, _)
\* the sum of f[k] over k in S
SumOver(f, S) ==
    IF S = {} THEN 0
    ELSE LET k == CHOOSE v \in S : TRUE
         IN  f[k] + SumOver(f, S \ {k})

----------------------------------------------------------------------------
(* remap_lbls and its helpers *)

\* xys.groupby(lbls)[xy].apply(mean).drop(noise): one row per non-noise
\* label, in ascending label order; the mean is (sx / cnt, sy / cnt)
Centroids(lbls, xys) ==
    LET ks == SortedSeq(Range(lbls) \ {noise})
    IN  [k \in 1..Len(ks) |->
            LET P == {p \in DOMAIN lbls : lbls[p] = ks[k]}
            IN  [lbl |-> ks[k],
                 sx  |-> SumOver([p \in P |-> xys[p][1]], P),
                 sy  |-> SumOver([p \in P |-> xys[p][2]], P),
                 cnt |-> Cardinality(P)]]

\* squared distance between centroids q and r, times (q.cnt * r.cnt)^2
Dist2Num(q, r) ==
    (q.sx * r.cnt - r.sx * q.cnt) * (q.sx * r.cnt - r.sx * q.cnt)
    + (q.sy * r.cnt - r.sy * q.cnt) * (q.sy * r.cnt - r.sy * q.cnt)

\* centroid r1 is strictly nearer to q than centroid r2
Nearer(q, r1, r2) ==
    Dist2Num(q, r1) * r2.cnt * r2.cnt < Dist2Num(q, r2) * r1.cnt * r1.cnt

\* the query result ignored: always the first reference centroid
kdt_query_first(ref_centroids, q) == 1

\* ref_kdt.query(q): the position of the reference centroid nearest to q
\* (the first of them when several are equally near)
kdt_query(ref_centroids, q) ==
    CHOOSE k \in DOMAIN ref_centroids :
        /\ \A j \in DOMAIN ref_centroids :
               ~Nearer(q, ref_centroids[j], ref_centroids[k])
        /\ \A j \in 1..(k - 1) : Nearer(q, ref_centroids[k], ref_centroids[j])

\* the position the index returns taken for the label (the final
\* .map(ref_centroids_ids) left out)
_remap_lbls_single_position(new_lbls, ref_centroids, xys) ==
    LET solu_centroids == Centroids(new_lbls, xys)
    IN  [L \in {solu_centroids[k].lbl : k \in DOMAIN solu_centroids} |->
            LET k == CHOOSE j \in DOMAIN solu_centroids :
                         solu_centroids[j].lbl = L
            IN  kdt_query(ref_centroids, solu_centroids[k]) - 1]

\* _remap_lbls_single: old label -> label of the nearest reference centroid,
\* for every non-noise label of new_lbls
_remap_lbls_single(new_lbls, ref_centroids, xys) ==
    LET solu_centroids == Centroids(new_lbls, xys)
        nrst_ref_cl == [k \in DOMAIN solu_centroids |->
                           kdt_query(ref_centroids, solu_centroids[k])]
    IN  [L \in {solu_centroids[k].lbl : k \in DOMAIN solu_centroids} |->
            LET k == CHOOSE j \in DOMAIN solu_centroids :
                         solu_centroids[j].lbl = L
            IN  ref_centroids[nrst_ref_cl[k]].lbl]

\* Series.map(remap_ids): a value that is no key of remap_ids becomes NaN
SeriesMap(col, remap_ids) ==
    [p \in DOMAIN col |->
        IF col[p] \in DOMAIN remap_ids THEN remap_ids[col[p]] ELSE NaN]

\* _remap_n_expand: one pool task
_remap_n_expand(solus_s, ref_centroids, xys) ==
    SeriesMap(solus_s, _remap_lbls_single(solus_s, ref_centroids, xys))

\* ns_clusters: x.unique().shape[0] of every column
ns_clusters(M) ==
    [c \in DOMAIN M |-> Cardinality(Range(M[c]))]

\* ns_clusters[ns_clusters == ns_clusters.max()].iloc[[0]].index[0]
RefColumn(M) ==
    LET ns == ns_clusters(M)
    IN  CHOOSE c \in DOMAIN M :
            /\ \A d \in DOMAIN M : ns[d] <= ns[c]
            /\ \A d \in 1..(c - 1) : ns[d] < ns[c]

\* fillna left out: the missing values stay
FillNa_left_out(M) == M

\* DataFrame.fillna(noise)
FillNa(M) ==
    [c \in DOMAIN M |->
        [p \in DOMAIN M[c] |-> IF M[c][p] = NaN THEN noise ELSE M[c][p]]]

\* np.zeros(solus.shape): the results holder
Zeros(M) ==
    [c \in DOMAIN M |-> [p \in DOMAIN M[c] |-> 0]]

\* the sequential path with line 348 (the copy of the reference column)
\* left out: the reference column keeps the zeros of the results holder
RemapSequential_no_copy(M, xys) ==
    LET r == RefColumn(M)
        ref_centroids == Centroids(M[r], xys)
        looped == [c \in DOMAIN M |->
                      IF c = r THEN Zeros(M)[c]
                      ELSE SeriesMap(M[c],
                               _remap_lbls_single(M[c], ref_centroids, xys))]
    IN  FillNa(looped)

\* the body of remap_lbls on the sequential path, once ref_centroids is
\* known to be non-empty: the loop over the other columns, the copy of the
\* reference column, fillna
RemapSequential(M, xys) ==
    LET r == RefColumn(M)
        ref_centroids == Centroids(M[r], xys)
        looped == [c \in DOMAIN M |->
                      IF c = r THEN Zeros(M)[c]
                      ELSE SeriesMap(M[c],
                               _remap_lbls_single(M[c], ref_centroids, xys))]
        copied == [looped EXCEPT ![r] = M[r]]
    IN  FillNa(copied)

----------------------------------------------------------------------------
(* ensemble *)

\* row p of a table
Row(M, p) == [c \in DOMAIN M |-> M[c][p]]

RECURSIVE Counter(_)
\* collections.Counter(a): <<value, count>> pairs, in the order in which the
\* values are first met when a is read left to right
Counter(a) ==
    IF a = << >> THEN << >>
    ELSE LET init == Counter(SubSeq(a, 1, Len(a) - 1))
             v    == a[Len(a)]
         IN  IF \E k \in DOMAIN init : init[k][1] = v
             THEN [k \in DOMAIN init |->
                      IF init[k][1] = v THEN <<v, init[k][2] + 1>>
                      ELSE init[k]]
             ELSE Append(init, <<v, 1>>)

\* the last, not the first, of the items that share the largest count
most_common_1_last(a) ==
    LET items == Counter(a)
        k == CHOOSE j \in DOMAIN items :
                 /\ \A m \in DOMAIN items : items[m][2] <= items[j][2]
                 /\ \A m \in (j + 1)..Len(items) : items[m][2] < items[j][2]
    IN  items[k]

\* Counter(a).most_common(1)[0]: max over the items by count, which keeps
\* the first of the items that share the largest count
most_common_1(a) ==
    LET items == Counter(a)
        k == CHOOSE j \in DOMAIN items :
                 /\ \A m \in DOMAIN items : items[m][2] <= items[j][2]
                 /\ \A m \in 1..(j - 1) : items[m][2] < items[j][2]
    IN  items[k]

\* ensemble: per point the winning label and its count; pct is
\* cnt / solus_relabelled.shape[1]
ensemble(M, n) ==
    [p \in 1..n |->
        LET top == most_common_1(Row(M, p))
        IN  [lbls |-> top[1], cnt |-> top[2]]]

\* the threshold taken as pct <= pct_thr
Threshold_inclusive(v, R, thr) ==
    [p \in DOMAIN v |->
        IF v[p].cnt * PctDen <= thr * R THEN noise ELSE v[p].lbls]

\* fit, line 229: lbls[votes["pct"] < pct_thr] = noise, with
\* pct = cnt / R and pct_thr = thr / PctDen
Threshold(v, R, thr) ==
    [p \in DOMAIN v |->
        IF v[p].cnt * PctDen < thr * R THEN noise ELSE v[p].lbls]

----------------------------------------------------------------------------
(* _one_draw and the two estimators it calls *)

\* squared Euclidean distance
Dist2(a, c) ==
    (a[1] - c[1]) * (a[1] - c[1]) + (a[2] - c[2]) * (a[2] - c[2])

\* the eps-neighbourhood of sample smp (it holds smp itself)
Neighborhood(pts, smp, eps) ==
    {j \in DOMAIN pts : Dist2(pts[smp], pts[j]) <= eps * eps}

\* a core sample has at least min_samples samples in its neighbourhood
IsCore(pts, smp, eps, min_samples) ==
    Cardinality(Neighborhood(pts, smp, eps)) >= min_samples

RECURSIVE Grow(_, _, _, _, _)
\* the samples a cluster seeded with S collects: every still unlabelled
\* neighbour of a core sample of the cluster joins it
Grow(pts, eps, min_samples, S, free) ==
    LET new == {j \in free \ S :
                   \E c \in S : /\ IsCore(pts, c, eps, min_samples)
                                /\ j \in Neighborhood(pts, c, eps)}
    IN  IF new = {} THEN S
        ELSE Grow(pts, eps, min_samples, S \cup new, free)

RECURSIVE dbscan_inner(_, _, _, _, _, _)
\* the samples are visited in array order; an unlabelled core sample opens
\* cluster label_num
dbscan_inner(pts, eps, min_samples, smp, labels, label_num) ==
    IF smp > Len(pts) THEN labels
    ELSE IF labels[smp] # noise \/ ~IsCore(pts, smp, eps, min_samples)
    THEN dbscan_inner(pts, eps, min_samples, smp + 1, labels, label_num)
    ELSE LET C == Grow(pts, eps, min_samples, {smp},
                       {j \in DOMAIN pts : labels[j] = noise})
         IN  dbscan_inner(pts, eps, min_samples, smp + 1,
                 [j \in DOMAIN pts |->
                     IF j \in C THEN label_num ELSE labels[j]],
                 label_num + 1)

\* DBSCAN(eps, min_samples).fit(pts).labels_
DBSCAN(pts, eps, min_samples) ==
    dbscan_inner(pts, eps, min_samples, 1, [j \in DOMAIN pts |-> noise], 0)

\* KNeighborsClassifier(n_neighbors=1).fit(pts, lbls).predict(q): the labels
\* of the training samples nearest to q (more than one label only when
\* equally near training samples are labelled differently)
NR_predict(pts, lbls, q) ==
    {lbls[k] : k \in {j \in DOMAIN pts :
                         \A m \in DOMAIN pts :
                             Dist2(q, pts[j]) <= Dist2(q, pts[m])}}

\* int(n * pct_exact)
ThinSize(n, pct_exact) == (n * pct_exact) \div PctDen

\* min_samples * pct_exact, 1 if that is < 1, else its floor
ThinMinSamples(min_samples, pct_exact) ==
    IF min_samples * pct_exact < PctDen THEN 1
    ELSE (min_samples * pct_exact) \div PctDen

\* rids after np.random.shuffle and the cut: the arrangements of k of the
\* n row ids
Shuffles(n, k) ==
    {r \in [1..k -> 1..n] : \A a, c \in 1..k : a # c => r[a] # r[c]}

\* lbls_thin: the labels DBSCAN gives the sampled rows (thin = the
\* shuffled, cut rids), in that order
ThinLabels(xys, thin, eps, min_samples, pct_exact) ==
    DBSCAN([k \in DOMAIN thin |-> xys[thin[k]]], eps,
           ThinMinSamples(min_samples, pct_exact))

RECURSIVE Predictions(_, _, _, _)
\* the vectors lbls_pred can be, for points 1..p
Predictions(xys, thin, lbls_thin, p) ==
    IF p = 0 THEN {<< >>}
    ELSE {Append(v, l) :
             v \in Predictions(xys, thin, lbls_thin, p - 1),
             l \in NR_predict([k \in DOMAIN thin |-> xys[thin[k]]],
                              lbls_thin, xys[p])}

\* the sample's labels handed out by position, not by row id
_one_draw_by_position(xys, thin, eps, min_samples, pct_exact) ==
    {[p \in DOMAIN xys |->
         ThinLabels(xys, thin, eps, min_samples,
                    pct_exact)[((p - 1) % Len(thin)) + 1]]}

\* _one_draw, given the shuffled and cut rids (thin)
_one_draw(xys, thin, eps, min_samples, pct_exact) ==
    Predictions(xys, thin,
                ThinLabels(xys, thin, eps, min_samples, pct_exact), Len(xys))

----------------------------------------------------------------------------
(* ADBSCAN.fit *)

\* (n_jobs == -1) or (n_jobs > 1)
MultiCore(n_jobs) == n_jobs = -1 \/ n_jobs > 1

\* the configurations fit is run with
Configs ==
    [eps : {1}, min_samples : {2, 4}, n_jobs : {1, 2}, pct_exact : {5, 10},
     reps : 0..MaxReps, pct_thr : {5, 9}]

\* get_cluster_boundary has not been called
Idle == [pc |-> "idle"]

Init ==
    /\ self \in Configs
    /\ X \in {SubSeq(Coords, 1, n) : n \in 0..Len(Coords)}
    /\ pc = "fit"
    /\ i = 0
    /\ solus = << >>
    /\ rids = << >>
    /\ ref = 0
    /\ s_ids = << >>
    /\ remapped = << >>
    /\ solus_relabelled = << >>
    /\ votes = << >>
    /\ labels_ = << >>
    /\ warned = << >>
    /\ err = ""
    /\ b = Idle

\* fit, lines 179-194: the Label Matrix is allocated, and the multi-core
\* warning is given; the draw loop is entered (or skipped when reps = 0)
FitStart ==
    /\ pc = "fit"
    /\ solus' = [c \in 1..self.reps |-> [p \in 1..Len(X) |-> Blank]]
    /\ warned' = IF MultiCore(self.n_jobs)
                 THEN Append(warned, "Execution of draws is still sequential.")
                 ELSE warned
    /\ i' = 0
    /\ pc' = IF self.reps = 0 THEN "remap" ELSE "draw"
    /\ UNCHANGED <<self, X, rids, ref, s_ids, remapped, solus_relabelled,
                   votes, labels_, err, b>>

\* one pass of the loop of fit: _one_draw, whose result becomes column i
OneDraw ==
    /\ pc = "draw"
    /\ i < self.reps
    /\ ThinSize(Len(X), self.pct_exact) > 0
    /\ \E r \in Shuffles(Len(X), ThinSize(Len(X), self.pct_exact)) :
         \E lbls_pred \in _one_draw(X, r, self.eps, self.min_samples,
                                    self.pct_exact) :
            /\ solus' = [solus EXCEPT ![i + 1] = lbls_pred]
            /\ rids' = r
    /\ i' = i + 1
    /\ pc' = IF i + 1 = self.reps THEN "remap" ELSE "draw"
    /\ UNCHANGED <<self, X, ref, s_ids, remapped, solus_relabelled, votes,
                   labels_, warned, err, b>>

\* _one_draw when the sample is empty (int(n * pct_exact) = 0): DBSCAN.fit
\* refuses an array with no sample
OneDrawEmpty ==
    /\ pc = "draw"
    /\ i < self.reps
    /\ ThinSize(Len(X), self.pct_exact) = 0
    /\ err' = "ValueError: DBSCAN.fit"
    /\ pc' = "raised"
    /\ UNCHANGED <<self, X, i, solus, rids, ref, s_ids, remapped,
                   solus_relabelled, votes, labels_, warned, b>>

----------------------------------------------------------------------------
(* remap_lbls *)

\* lines 315-317 on a table with no column (or no row): the selection
\* .iloc[[0]] (or .iloc[0]) has nothing to pick
RemapNoColumn ==
    /\ pc = "remap"
    /\ (Len(solus) = 0 \/ Len(X) = 0)
    /\ err' = "IndexError: remap_lbls"
    /\ pc' = "raised"
    /\ UNCHANGED <<self, X, i, solus, rids, ref, s_ids, remapped,
                   solus_relabelled, votes, labels_, warned, b>>

\* lines 350-352: the reference column has no centroid left
RemapNoClusters ==
    /\ pc = "remap"
    /\ Len(solus) > 0 /\ Len(X) > 0
    /\ Centroids(solus[RefColumn(solus)], X) = << >>
    /\ ref' = RefColumn(solus)
    /\ warned' = Append(warned, "No clusters identified.")
    /\ solus_relabelled' = solus
    /\ pc' = "remapped"
    /\ UNCHANGED <<self, X, i, solus, rids, s_ids, remapped, votes,
                   labels_, err, b>>

\* lines 326-333, 341-349: the sequential path
RemapSeq ==
    /\ pc = "remap"
    /\ Len(solus) > 0 /\ Len(X) > 0
    /\ Centroids(solus[RefColumn(solus)], X) # << >>
    /\ ~MultiCore(self.n_jobs)
    /\ ref' = RefColumn(solus)
    /\ solus_relabelled' = RemapSequential(solus, X)
    /\ pc' = "remapped"
    /\ UNCHANGED <<self, X, i, solus, rids, s_ids, remapped, votes,
                   labels_, warned, err, b>>

\* solus.drop(ref, axis=1).columns.tolist()
OtherColumns(M, r) ==
    [k \in 1..(Len(M) - 1) |-> IF k < r THEN k ELSE k + 1]

\* lines 334-338: the pool is set up and handed one task per other column
RemapPoolStart ==
    /\ pc = "remap"
    /\ Len(solus) > 0 /\ Len(X) > 0
    /\ Centroids(solus[RefColumn(solus)], X) # << >>
    /\ MultiCore(self.n_jobs)
    /\ ref' = RefColumn(solus)
    /\ s_ids' = OtherColumns(solus, RefColumn(solus))
    /\ remapped' = [k \in 1..(Len(solus) - 1) |-> << >>]
    /\ pc' = "pool"
    /\ UNCHANGED <<self, X, i, solus, rids, solus_relabelled, votes,
                   labels_, warned, err, b>>

\* a worker finishes task k; pool.map files the result under k
PoolTask(k) ==
    /\ pc = "pool"
    /\ remapped[k] = << >>
    /\ remapped' = [remapped EXCEPT
                       ![k] = _remap_n_expand(solus[s_ids[k]],
                                              Centroids(solus[ref], X), X)]
    /\ UNCHANGED <<self, X, pc, i, solus, rids, ref, s_ids,
                   solus_relabelled, votes, labels_, warned, err, b>>

\* lines 339-340, 348-349 once every task has returned:
\* remapped_solus.loc[:, s_ids] = concat(remapped), then the copy of the
\* reference column and fillna
PoolAssign(M, r, ids, res) ==
    LET held == [c \in DOMAIN M |->
                    IF \E k \in DOMAIN ids : ids[k] = c
                    THEN res[CHOOSE k \in DOMAIN ids : ids[k] = c]
                    ELSE Zeros(M)[c]]
        copied == [held EXCEPT ![r] = M[r]]
    IN  FillNa(copied)

RemapPoolCollect ==
    /\ pc = "pool"
    /\ Len(s_ids) > 0
    /\ \A k \in DOMAIN remapped : remapped[k] # << >>
    /\ solus_relabelled' = PoolAssign(solus, ref, s_ids, remapped)
    /\ pc' = "remapped"
    /\ UNCHANGED <<self, X, i, solus, rids, ref, s_ids, remapped, votes,
                   labels_, warned, err, b>>

\* line 339 when the reference column is the only column: pandas.concat
\* of an empty list raises "No objects to concatenate"
RemapPoolConcatEmpty ==
    /\ pc = "pool"
    /\ Len(s_ids) = 0
    /\ err' = "ValueError: pandas.concat"
    /\ pc' = "raised"
    /\ UNCHANGED <<self, X, i, solus, rids, ref, s_ids, remapped,
                   solus_relabelled, votes, labels_, warned, b>>

----------------------------------------------------------------------------
(* the rest of fit *)

\* line 226
Ensemble ==
    /\ pc = "remapped"
    /\ votes' = ensemble(solus_relabelled, Len(X))
    /\ pc' = "voted"
    /\ UNCHANGED <<self, X, i, solus, rids, ref, s_ids, remapped,
                   solus_relabelled, labels_, warned, err, b>>

\* lines 227-230: lbls is the array behind votes["lbls"], so the table
\* holds the thresholded labels too
FitThreshold ==
    /\ pc = "voted"
    /\ labels_' = Threshold(votes, Len(solus_relabelled), self.pct_thr)
    /\ votes' = [p \in DOMAIN votes |->
                    [votes[p] EXCEPT
                        !.lbls = Threshold(votes, Len(solus_relabelled),
                                           self.pct_thr)[p]]]
    /\ pc' = "done"
    /\ UNCHANGED <<self, X, i, solus, rids, ref, s_ids, remapped,
                   solus_relabelled, warned, err, b>>

Remap ==
    \/ RemapNoColumn
    \/ RemapNoClusters
    \/ RemapSeq
    \/ RemapPoolStart
    \/ \E k \in DOMAIN remapped : PoolTask(k)
    \/ RemapPoolCollect
    \/ RemapPoolConcatEmpty

Next ==
    \/ FitStart
    \/ OneDraw
    \/ OneDrawEmpty
    \/ Remap
    \/ Ensemble
    \/ FitThreshold

Spec == Init /\ [][Next]_vars

----------------------------------------------------------------------------
(* remap_lbls and ensemble called on a hand-built Label Matrix, as in their
   doctests *)

\* the labels of a hand-built Label Matrix: noise and two cluster ids
AlignLabels == {noise, 0, 1}

\* the label vectors over n points
LabelVectors(n) == [1..n -> AlignLabels]

\* the hand-built Label Matrices over n points: at most MaxCols columns and
\* 2 * MaxCols cells
LabelMatrices(n) ==
    UNION {[1..c -> LabelVectors(n)] :
              c \in {d \in 0..MaxCols : n * d <= 2 * MaxCols}}

InitAlign ==
    /\ X \in {SubSeq(Coords, 1, n) : n \in 1..3}
    /\ solus \in LabelMatrices(Len(X))
    /\ self \in {cf \in Configs : /\ cf.reps = Len(solus)
                                  /\ cf.min_samples = 2
                                  /\ cf.pct_exact = 10
                                  /\ cf.pct_thr = 5}
    /\ pc = "remap"
    /\ i = 0
    /\ rids = << >>
    /\ ref = 0
    /\ s_ids = << >>
    /\ remapped = << >>
    /\ solus_relabelled = << >>
    /\ votes = << >>
    /\ labels_ = << >>
    /\ warned = << >>
    /\ err = ""
    /\ b = Idle

NextAlign ==
    \/ Remap
    \/ Ensemble

SpecAlign == InitAlign /\ [][NextAlign]_vars

----------------------------------------------------------------------------
(* remap_lbls called on the table an earlier call of remap_lbls returned *)

\* the body of remap_lbls on the pool path, once ref_centroids is known to
\* be non-empty and there is another column: one task per other column,
\* pool.map files the results in task order
RemapPool(M, xys) ==
    LET r == RefColumn(M)
        ids == OtherColumns(M, r)
        res == [k \in DOMAIN ids |->
                   _remap_n_expand(M[ids[k]], Centroids(M[r], xys), xys)]
    IN  PoolAssign(M, r, ids, res)

\* remap_lbls(solus_relabelled, xys, n_jobs=self.n_jobs): the caller hands
\* the table of the first call to a second call, where it is the argument
\* solus
Realign ==
    /\ pc = "remapped"
    /\ solus' = solus_relabelled
    /\ ref' = RefColumn(solus_relabelled)
    /\ IF Centroids(solus_relabelled[RefColumn(solus_relabelled)], X) = << >>
       THEN /\ warned' = Append(warned, "No clusters identified.")
            /\ solus_relabelled' = solus_relabelled
            /\ pc' = "realigned"
            /\ UNCHANGED <<s_ids, remapped, err>>
       ELSE IF ~MultiCore(self.n_jobs)
       THEN /\ solus_relabelled' = RemapSequential(solus_relabelled, X)
            /\ pc' = "realigned"
            /\ UNCHANGED <<s_ids, remapped, warned, err>>
       ELSE IF Len(solus_relabelled) > 1
       THEN /\ s_ids' = OtherColumns(solus_relabelled,
                                     RefColumn(solus_relabelled))
            /\ remapped' =
                   [k \in 1..(Len(solus_relabelled) - 1) |->
                       _remap_n_expand(
                           solus_relabelled[s_ids'[k]],
                           Centroids(
                               solus_relabelled[RefColumn(solus_relabelled)],
                               X),
                           X)]
            /\ solus_relabelled' = RemapPool(solus_relabelled, X)
            /\ pc' = "realigned"
            /\ UNCHANGED <<warned, err>>
       ELSE /\ s_ids' = << >>
            /\ remapped' = << >>
            /\ err' = "ValueError: pandas.concat"
            /\ pc' = "raised"
            /\ UNCHANGED <<solus_relabelled, warned>>
    /\ UNCHANGED <<self, X, i, rids, votes, labels_, b>>

NextRealign ==
    \/ Remap
    \/ Realign

SpecRealign == InitAlign /\ [][NextRealign]_vars

----------------------------------------------------------------------------
(* lines 225-230 of fit on two runs that differ by their cluster ids only,
   in either column order *)

\* the label vector with the cluster ids 0 and 1 exchanged
SwapLabels(lbls) ==
    [p \in DOMAIN lbls |->
        IF lbls[p] = 0 THEN 1 ELSE IF lbls[p] = 1 THEN 0 ELSE lbls[p]]

\* the Point Sets of these runs: the first points of Coords, and three
\* points on a line, where the middle point is the centroid of the other two
SwapPoints ==
    {SubSeq(Coords, 1, n) : n \in 2..Len(Coords)}
        \cup {<< <<0, 0>>, <<2, 0>>, <<1, 0>> >>}

\* remap_lbls(solus, xys, n_jobs) on a table of two or more columns: the
\* table it returns
remap_lbls(M, xys, n_jobs) ==
    IF Centroids(M[RefColumn(M)], xys) = << >> THEN M
    ELSE IF MultiCore(n_jobs) THEN RemapPool(M, xys)
    ELSE RemapSequential(M, xys)

InitSwap ==
    /\ X \in SwapPoints
    /\ \E A \in {v \in LabelVectors(Len(X)) : {0, 1} \subseteq Range(v)} :
          solus = <<A, SwapLabels(A)>>
    /\ self \in {cf \in Configs : /\ cf.reps = 2
                                  /\ cf.min_samples = 2
                                  /\ cf.pct_exact = 10}
    /\ pc = "remap"
    /\ i = 0
    /\ rids = << >>
    /\ ref = 0
    /\ s_ids = << >>
    /\ remapped = << >>
    /\ solus_relabelled = << >>
    /\ votes = << >>
    /\ labels_ = << >>
    /\ warned = << >>
    /\ err = ""
    /\ b = Idle

\* lines 225-230 run again, on the table with its two columns exchanged:
\* remap_lbls, ensemble, the threshold; labels_ and votes are overwritten
FitSwapped ==
    /\ pc = "done"
    /\ Len(solus) = 2
    /\ LET M == <<solus[2], solus[1]>>
           r == RefColumn(M)
           none == Centroids(M[r], X) = << >>
           R == remap_lbls(M, X, self.n_jobs)
           v == ensemble(R, Len(X))
           lbls == Threshold(v, Len(R), self.pct_thr)
       IN  /\ solus' = M
           /\ ref' = r
           /\ s_ids' = IF MultiCore(self.n_jobs) /\ ~none
                       THEN OtherColumns(M, r) ELSE s_ids
           /\ remapped' = IF MultiCore(self.n_jobs) /\ ~none
                          THEN <<_remap_n_expand(M[OtherColumns(M, r)[1]],
                                                 Centroids(M[r], X), X)>>
                          ELSE remapped
           /\ warned' = IF none
                        THEN Append(warned, "No clusters identified.")
                        ELSE warned
           /\ solus_relabelled' = R
           /\ votes' = [p \in DOMAIN v |-> [v[p] EXCEPT !.lbls = lbls[p]]]
           /\ labels_' = lbls
    /\ pc' = "swapped"
    /\ UNCHANGED <<self, X, i, rids, err, b>>

\* the table has two columns, each with two clusters, and the Point Set is
\* not empty: of remap_lbls, the sequential path and the pool path run
NextSwap ==
    \/ RemapSeq
    \/ RemapPoolStart
    \/ \E k \in DOMAIN remapped : PoolTask(k)
    \/ RemapPoolCollect
    \/ Ensemble
    \/ FitThreshold
    \/ FitSwapped

SpecSwap == InitSwap /\ [][NextSwap]_vars

----------------------------------------------------------------------------
(* get_cluster_boundary *)

\* _asa: alpha_shape_auto on the points of one cluster; the polygon is
\* kept as what it was built from
_asa(pts_s) == [built_from |-> pts_s[1], step |-> pts_s[2]]

\* the groups taken from all the labels, noise not filtered out
Groups_with_noise(labels) ==
    LET subs == SortedSeq(Range(labels))
    IN  [k \in DOMAIN subs |->
            [sub |-> subs[k],
             rows |-> SortedSeq({p \in DOMAIN labels : labels[p] = subs[k]})]]

\* g.groups, lines 517-518: non-noise label -> the row ids carrying it, the
\* labels in ascending order
Groups(labels) ==
    LET subs == SortedSeq(Range(labels) \ {noise})
    IN  [k \in DOMAIN subs |->
            [sub |-> subs[k],
             rows |-> SortedSeq({p \in DOMAIN labels : labels[p] = subs[k]})]]

\* lines 519-523: chunked_pts_step and cluster_lbls
Chunks(labels, xys, step) ==
    LET g == Groups(labels)
    IN  [k \in DOMAIN g |->
            <<[m \in DOMAIN g[k].rows |-> xys[g[k].rows[m]]], step>>]

ClusterLbls(labels) ==
    LET g == Groups(labels)
    IN  [k \in DOMAIN g |-> g[k].sub]

\* GeoSeries(polys, index=cluster_lbls): geopandas' series keyed by label,
\* or, without geopandas, the stand-in of lines 512-513: list(data)
GeoSeries(data, index, geopandas) ==
    IF geopandas
    THEN [kind |-> "GeoSeries",
          at   |-> [l \in Range(index) |->
                       data[CHOOSE k \in DOMAIN index : index[k] = l]]]
    ELSE [kind |-> "list", at |-> data]

InitBoundary ==
    /\ X = Coords
    /\ b \in [pc : {"start"},
              labels : [1..Len(Coords) -> noise..MaxLabel],
              n_jobs : {1, 2, -1},
              geopandas : BOOLEAN,
              step : {1},
              polys : {<< >>},
              out : {<< >>}]
    /\ self \in {cf \in Configs : /\ cf.reps = 0 /\ cf.n_jobs = 1
                                  /\ cf.min_samples = 2
                                  /\ cf.pct_exact = 10 /\ cf.pct_thr = 5}
    /\ pc = "idle"
    /\ i = 0
    /\ solus = << >>
    /\ rids = << >>
    /\ ref = 0
    /\ s_ids = << >>
    /\ remapped = << >>
    /\ solus_relabelled = << >>
    /\ votes = << >>
    /\ labels_ = << >>
    /\ warned = << >>
    /\ err = ""

\* lines 515-525, 530-531 with n_jobs = 1: map(_asa, ...) is consumed by
\* GeoSeries, chunk after chunk
BoundarySeq ==
    /\ b.pc = "start"
    /\ b.n_jobs = 1
    /\ b' = [b EXCEPT
                !.polys = [k \in DOMAIN Chunks(b.labels, X, b.step) |->
                              _asa(Chunks(b.labels, X, b.step)[k])],
                !.out = GeoSeries(
                            [k \in DOMAIN Chunks(b.labels, X, b.step) |->
                                _asa(Chunks(b.labels, X, b.step)[k])],
                            ClusterLbls(b.labels), b.geopandas),
                !.pc = "returned"]
    /\ UNCHANGED <<self, X, pc, i, solus, rids, ref, s_ids, remapped,
                   solus_relabelled, votes, labels_, warned, err>>

\* lines 526-528: the pool is handed one task per cluster
BoundaryPoolStart ==
    /\ b.pc = "start"
    /\ b.n_jobs # 1
    /\ b' = [b EXCEPT
                !.polys = [k \in DOMAIN Chunks(b.labels, X, b.step) |-> << >>],
                !.pc = "pool"]
    /\ UNCHANGED <<self, X, pc, i, solus, rids, ref, s_ids, remapped,
                   solus_relabelled, votes, labels_, warned, err>>

\* a worker finishes task k; pool.map files the result under k
BoundaryTask(k) ==
    /\ b.pc = "pool"
    /\ b.polys[k] = << >>
    /\ b' = [b EXCEPT !.polys[k] = _asa(Chunks(b.labels, X, b.step)[k])]
    /\ UNCHANGED <<self, X, pc, i, solus, rids, ref, s_ids, remapped,
                   solus_relabelled, votes, labels_, warned, err>>

\* lines 529-531 once every task has returned
BoundaryCollect ==
    /\ b.pc = "pool"
    /\ \A k \in DOMAIN b.polys : b.polys[k] # << >>
    /\ b' = [b EXCEPT
                !.out = GeoSeries(b.polys, ClusterLbls(b.labels), b.geopandas),
                !.pc = "returned"]
    /\ UNCHANGED <<self, X, pc, i, solus, rids, ref, s_ids, remapped,
                   solus_relabelled, votes, labels_, warned, err>>

NextBoundary ==
    \/ BoundarySeq
    \/ BoundaryPoolStart
    \/ \E k \in DOMAIN b.polys : BoundaryTask(k)
    \/ BoundaryCollect

SpecBoundary == InitBoundary /\ [][NextBoundary]_vars

----------------------------------------------------------------------------
(* Properties *)

\* the number of cells of sequence a that hold v
Occurrences(a, v) == Cardinality({k \in DOMAIN a : a[k] = v})

\* the non-noise labels of a column
ClusterLabels(col) == Range(col) \ {noise}

\* the Reference Run as the data model defines it: the first of the columns
\* with the largest number of distinct non-noise labels
ReferenceRun(M) ==
    CHOOSE c \in DOMAIN M :
        /\ \A d \in DOMAIN M :
               Cardinality(ClusterLabels(M[d])) <= Cardinality(ClusterLabels(M[c]))
        /\ \A d \in 1..(c - 1) :
               Cardinality(ClusterLabels(M[d])) < Cardinality(ClusterLabels(M[c]))

\* C1: the Final Labels fit produces have one entry per point of the Point
\* Set, in index order, and every entry is the noise label or one of the
\* non-noise labels of the Reference Run.
C1_FinalLabelsInReference ==
    pc = "done" =>
        /\ DOMAIN labels_ = DOMAIN X
        /\ \A p \in DOMAIN labels_ :
               \/ labels_[p] = noise
               \/ labels_[p] \in ClusterLabels(solus[ReferenceRun(solus)])

\* C1 happens: fit has ended with a point that keeps a cluster label, after
\* more than one draw
C1_Witness ==
    /\ pc = "done"
    /\ self.reps >= 2
    /\ \E p \in DOMAIN labels_ : labels_[p] # noise
    /\ \E p \in DOMAIN labels_ : labels_[p] = noise

\* C2: once fit has thresholded the consensus, a point whose vote share
\* (occurrences of its winning label in its row, over R) is below pct_thr is
\* noise, and any other point has its consensus winning label.
C2_ThresholdForcesNoise ==
    pc = "done" =>
        \A p \in DOMAIN X :
            LET won   == ensemble(solus_relabelled, Len(X))[p].lbls
                share == Occurrences(Row(solus_relabelled, p), won)
            IN  IF share * PctDen < self.pct_thr * Len(solus_relabelled)
                THEN labels_[p] = noise
                ELSE labels_[p] = won

\* C2 happens: one point lost a cluster label to the threshold, another
\* kept its cluster label
C2_Witness ==
    /\ pc = "done"
    /\ \E p \in DOMAIN X :
           /\ ensemble(solus_relabelled, Len(X))[p].lbls # noise
           /\ labels_[p] = noise
    /\ \E p \in DOMAIN X : labels_[p] # noise

\* the position at which v is first met in a
FirstAt(a, v) == CHOOSE k \in DOMAIN a : a[k] = v /\ \A m \in 1..(k - 1) : a[m] # v

\* C3: ensemble returns one row per point, in index order; the winning
\* label is a label of the point's row that no label of the row outnumbers,
\* it is met before any other label of the row that occurs as often, and the
\* vote share is its number of occurrences over R, hence in (0, 1].
C3_EnsembleMajority ==
    pc = "voted" =>
        /\ DOMAIN votes = DOMAIN X
        /\ \A p \in DOMAIN votes :
               LET row == Row(solus_relabelled, p)
                   won == votes[p].lbls
               IN  /\ won \in Range(row)
                   /\ votes[p].cnt = Occurrences(row, won)
                   /\ \A k \in DOMAIN row :
                          Occurrences(row, row[k]) <= votes[p].cnt
                   /\ \A k \in DOMAIN row :
                          (row[k] # won /\ Occurrences(row, row[k]) = votes[p].cnt)
                              => FirstAt(row, won) < FirstAt(row, row[k])
                   /\ 0 < votes[p].cnt
                   /\ votes[p].cnt <= Len(solus_relabelled)

\* C3 happens: one row has a strict majority label that is not its first
\* cell, another row has several most frequent labels
C3_Witness ==
    /\ pc = "voted"
    /\ \E p \in DOMAIN votes :
           /\ votes[p].lbls # Row(solus_relabelled, p)[1]
           /\ votes[p].cnt >= 2
    /\ \E p \in DOMAIN votes :
           \E k \in DOMAIN solus_relabelled :
               /\ solus_relabelled[k][p] # votes[p].lbls
               /\ Occurrences(Row(solus_relabelled, p), solus_relabelled[k][p])
                      = votes[p].cnt

\* C4: on the pool path remap_lbls returns the matrix the sequential path
\* returns for the same Label Matrix and coordinates, in whatever order the
\* tasks finish.
C4_PoolSameAsSequential ==
    (/\ MultiCore(self.n_jobs)
     /\ ref # 0
     /\ Centroids(solus[ref], X) # << >>
     /\ pc \in {"raised", "remapped", "voted", "done"})
        => /\ pc # "raised"
           /\ solus_relabelled = RemapSequential(solus, X)

\* C7: remap_lbls takes its no-cluster path only when every column of the
\* Label Matrix holds nothing but noise, so the consensus of the returned
\* matrix is noise for every point.
C7_NoClusterPathOnlyAllNoise ==
    (\E k \in DOMAIN warned : warned[k] = "No clusters identified.")
        => /\ \A c \in DOMAIN solus : ClusterLabels(solus[c]) = {}
           /\ pc = "voted" => \A p \in DOMAIN votes : votes[p].lbls = noise

\* C9: the column remap_lbls takes as reference is the first of the columns
\* with the largest number of distinct non-noise labels.
C9_ReferenceIsMostClusters ==
    ref # 0 => ref = ReferenceRun(solus)

\* the centroid of the points of column col labelled L: sums and count
GroupSum(col, L, xys) ==
    LET G == {p \in DOMAIN col : col[p] = L}
    IN  [sx |-> SumOver([p \in G |-> xys[p][1]], G),
         sy |-> SumOver([p \in G |-> xys[p][2]], G),
         cnt |-> Cardinality(G)]

\* centroid g is at least as near to centroid h1 as to centroid h2
NotFarther(g, h1, h2) ==
    ((g.sx * h1.cnt - h1.sx * g.cnt) * (g.sx * h1.cnt - h1.sx * g.cnt)
       + (g.sy * h1.cnt - h1.sy * g.cnt) * (g.sy * h1.cnt - h1.sy * g.cnt))
          * h2.cnt * h2.cnt
    <= ((g.sx * h2.cnt - h2.sx * g.cnt) * (g.sx * h2.cnt - h2.sx * g.cnt)
          + (g.sy * h2.cnt - h2.sy * g.cnt) * (g.sy * h2.cnt - h2.sy * g.cnt))
          * h1.cnt * h1.cnt

C5_PlainDBSCAN ==
    (self.reps = 1 /\ self.pct_exact = PctDen /\ pc = "voted") =>
        \A p \in DOMAIN X :
            votes[p].lbls = DBSCAN(X, self.eps, self.min_samples)[p]

\* C5, amended: with one draw and pct_exact = 1 the draw samples every
\* point, and the consensus label of each point is the label DBSCAN gives
\* that point when it is run on the Point Set in the draw's shuffled order.
C5_ShuffledDBSCAN ==
    (self.reps = 1 /\ self.pct_exact = PctDen /\ pc = "voted") =>
        /\ Len(rids) = Len(X)
        /\ \A k \in DOMAIN rids :
               votes[rids[k]].lbls
                   = DBSCAN([m \in DOMAIN rids |-> X[rids[m]]],
                            self.eps, self.min_samples)[k]
        /\ \A p \in DOMAIN X : votes[p].cnt = 1

\* C5 happens: one draw of the whole Point Set found two clusters, in a
\* shuffled order that numbers them the other way round
C5_Witness ==
    /\ self.reps = 1 /\ self.pct_exact = PctDen /\ pc = "voted"
    /\ \E p, q \in DOMAIN X :
           /\ votes[p].lbls = 0 /\ DBSCAN(X, self.eps, self.min_samples)[p] = 1
           /\ votes[q].lbls = 1 /\ DBSCAN(X, self.eps, self.min_samples)[q] = 0

\* C6: fit called with reps = 0 or with an empty Point Set goes nowhere but
\* to its error: no draw loop, no alignment is entered.
C6_FailsBeforeAnyWork ==
    (self.reps = 0 \/ Len(X) = 0) => pc \in {"fit", "raised"}

\* the coordinates of the points labelled l
PointsOf(labels, l, xys) == {xys[p] : p \in {q \in DOMAIN labels : labels[q] = l}}

\* the result is keyed by exactly the non-noise labels, and the polygon
\* under a label is built from the points carrying it and no other point
KeyedByLabel ==
    /\ b.out.kind = "GeoSeries"
    /\ DOMAIN b.out.at = ClusterLabels(b.labels)
    /\ \A l \in ClusterLabels(b.labels) :
           /\ Range(b.out.at[l].built_from) = PointsOf(b.labels, l, X)
           /\ Len(b.out.at[l].built_from)
                  = Cardinality({q \in DOMAIN b.labels : b.labels[q] = l})

----------------------------------------------------------------------------
(* C11 *)

\* C11: alignment is idempotent: when remap_lbls is called on the table
\* remap_lbls returned (same coordinates), the second call returns a table
\* cell-for-cell equal to the one it was given
C11_Idempotent ==
    pc = "realigned" => solus_relabelled = solus

\* a second call has returned on an aligned table of several columns whose
\* reference column holds two clusters and some noise, and in which another
\* column, different from the reference column, holds a cluster and noise
C11_Witness ==
    /\ pc = "realigned"
    /\ warned = << >>
    /\ Len(solus) >= 2
    /\ Range(solus[ref]) = {noise, 0, 1}
    /\ \E c \in DOMAIN solus :
          /\ c # ref
          /\ solus[c] # solus[ref]
          /\ noise \in Range(solus[c])
          /\ Range(solus[c]) # {noise}
    /\ solus_relabelled = solus

----------------------------------------------------------------------------
(* C12 *)

\* the clusters of a label vector have pairwise different centroids
DistinctCentroids(lbls, xys) ==
    LET cs == Centroids(lbls, xys)
    IN  \A k, j \in DOMAIN cs : k # j => Dist2Num(cs[k], cs[j]) # 0

\* C12: two runs A and B with the same clusters and noise but the cluster
\* ids exchanged: the Final Labels of the table [B, A] are row for row the
\* Final Labels of the table [A, B], for the same threshold
C12_SwapSymmetric ==
    [][pc' = "swapped" => labels_' = labels_]_vars

\* C12 as amended: when the clusters have pairwise different centroids, the
\* Final Labels of [A, B] are A and those of [B, A] are B, row for row: the
\* same clusters and the same noise rows, under exchanged cluster ids
C12_SwapGivesReferenceLabels ==
    [][(pc' = "swapped" /\ DistinctCentroids(solus[1], X))
          => /\ labels_ = solus[1]
             /\ labels_' = solus[2]
             /\ labels_' = SwapLabels(labels_)]_vars

\* fit's tail has run on [A, B] and then on [B, A], for runs of two clusters
\* and some noise: the result is the reference run B
C12_Witness ==
    /\ pc = "swapped"
    /\ Len(X) >= 3
    /\ Range(solus[1]) = {noise, 0, 1}
    /\ solus[2] = SwapLabels(solus[1])
    /\ DistinctCentroids(solus[1], X)
    /\ labels_ = solus[1]

====
